---- MODULE Spec2Model ----
(***************************************************************************)
(* Model of examples/configs/utils.py (populate_config, populate_defaults, *)
(* populate_defaults_for_swav) and of DeepCORAL.objective                   *)
(* (examples/algorithms/deepCORAL.py).                                      *)
(*                                                                          *)
(* Python objects live in a heap: every dict (the namespace dict of the     *)
(* config, every option-group dict, every preset table) is an object with   *)
(* an identity, and a dict-valued entry holds a reference to it, so that    *)
(* writing through a reference is visible to every holder, as in Python.    *)
(***************************************************************************)
EXTENDS Integers, Sequences, FiniteSets, TLC

VARIABLES
    heap,      \* object id -> dict (a function whose DOMAIN is the dict's keys)
    pc,        \* position of the running call
    exc,       \* the exception the call raised, or NoExc
    args,      \* the arguments of the running call
    entry,     \* the heap as it was when the running call was entered
    applied,   \* the <<layer, template>> populate_defaults has applied, in order
    calls,     \* number of calls made so far
    batch      \* the results mapping and mode handed to DeepCORAL.objective

vars == <<heap, pc, exc, args, entry, applied, calls, batch>>

(***************************************************************************)
(* Python values.                                                          *)
(***************************************************************************)
None == <<"none">>
PyInt(n) == <<"int", n>>
PyStr(s) == <<"str", s>>
PyBool(b) == <<"bool", b>>
PyList(s) == <<"list", s>>
Ref(o) == <<"ref", o>>

NoExc == <<"none", "">>
Raise(type, what) == <<type, what>>

\* isinstance(val, dict)
IsDict(v) == v[1] = "ref"

\* the dict object a dict-valued entry refers to
Obj(v) == v[2]

\* bool(v): None, 0, '', False, [] and {} are falsy
Truthy(h, v) ==
    CASE v[1] = "none" -> FALSE
      [] v[1] = "int"  -> v[2] # 0
      [] v[1] = "str"  -> v[2] # ""
      [] v[1] = "bool" -> v[2]
      [] v[1] = "list" -> v[2] # <<>>
      [] v[1] = "float" -> v[2] # "0.0"
      [] v[1] = "ref"  -> DOMAIN h[v[2]] # {}
      [] OTHER -> TRUE

\* Iteration order of dict keys (insertion order of the tables).
KeyOrder ==
    << "dataset", "algorithm", "groupby_fields", "n_groups_per_batch",
       "unlabeled_n_groups_per_batch", "split_scheme", "train_loader",
       "uniform_over_groups", "batch_size", "eval_loader", "model",
       "model_kwargs", "loss_function", "val_metric", "val_metric_decreasing",
       "n_epochs", "optimizer", "lr", "weight_decay", "scheduler",
       "scheduler_kwargs", "loader_kwargs", "no_group_logging", "final_lr",
       "warmup_epochs", "pretrained", "dropout", "num_warmup_steps",
       "step_size", "num_workers", "pin_memory" >>

Range(f) == {f[i] : i \in DOMAIN f}

\* dict.items(): the keys of d in iteration order
Items(d) == SelectSeq(KeyOrder, LAMBDA k : k \in DOMAIN d)

(***************************************************************************)
(* populate_config                                                         *)
(***************************************************************************)
\* a fill test that takes every key for unset
UnsetAlways(d, k) == TRUE

\* "key not in d_config or d_config[key] is None"
Unset(d, k) == k \notin DOMAIN d \/ d[k] = None

\* d[k] = v on the dict object o
SetItem(h, o, k, v) == [h EXCEPT ![o] = (k :> v) @@ h[o]]

\* a compatibility test that never fires
MismatchNever(a, b, force_compatibility) == FALSE

\* "d_config[key] != val and force_compatibility"
Mismatch(a, b, force_compatibility) == a # b /\ force_compatibility

\* the inner loop over val.items(); val is the template's option-group dict
RECURSIVE kwargs_loop(_, _, _, _, _, _)
kwargs_loop(h, config, key, val, force_compatibility, items) ==
    IF items = <<>> THEN [heap |-> h, exc |-> NoExc]
    ELSE
        LET kwargs_key == Head(items)
            kwargs_val == h[val][kwargs_key]
            d_config == h[config]
        IN  IF key \notin DOMAIN d_config
            THEN [heap |-> h, exc |-> Raise("KeyError", key)]
            ELSE IF ~IsDict(d_config[key])
            THEN [heap |-> h, exc |-> Raise("TypeError", key)]
            ELSE
                LET g == Obj(d_config[key]) IN
                IF Unset(h[g], kwargs_key)
                THEN kwargs_loop(SetItem(h, g, kwargs_key, kwargs_val), config,
                                 key, val, force_compatibility, Tail(items))
                ELSE IF Mismatch(h[g][kwargs_key], kwargs_val,
                                 force_compatibility)
                THEN [heap |-> h, exc |-> Raise("ValueError", key)]
                ELSE kwargs_loop(h, config, key, val, force_compatibility,
                                 Tail(items))

\* the outer loop over template.items()
RECURSIVE template_loop(_, _, _, _, _)
template_loop(h, config, template, force_compatibility, items) ==
    IF items = <<>> THEN [heap |-> h, exc |-> NoExc]
    ELSE
        LET key == Head(items)
            val == h[template][key]
            d_config == h[config]
        IN  IF ~IsDict(val)
            THEN IF Unset(d_config, key)
                 THEN template_loop(SetItem(h, config, key, val), config,
                                    template, force_compatibility, Tail(items))
                 ELSE IF Mismatch(d_config[key], val, force_compatibility)
                 THEN [heap |-> h, exc |-> Raise("ValueError", key)]
                 ELSE template_loop(h, config, template, force_compatibility,
                                    Tail(items))
            ELSE LET r == kwargs_loop(h, config, key, val[2],
                                      force_compatibility, Items(h[val[2]]))
                 IN  IF r.exc # NoExc THEN r
                     ELSE template_loop(r.heap, config, template,
                                        force_compatibility, Tail(items))

\* populate_config with the roles of config and template exchanged
populate_config_into_template(h, config, template, force_compatibility) ==
    IF template = "None" THEN [heap |-> h, exc |-> NoExc]
    ELSE template_loop(h, template, config, force_compatibility,
                       Items(h[config]))

\* populate_config(config, template, force_compatibility); objects are named
\* by strings, and the template "None" is Python's None
populate_config(h, config, template, force_compatibility) ==
    IF template = "None" THEN [heap |-> h, exc |-> NoExc]
    ELSE template_loop(h, config, template, force_compatibility,
                       Items(h[template]))

(***************************************************************************)
(* populate_config on its own: every config C and template T over two      *)
(* top-level keys and two option-group sub-keys, applied twice.            *)
(***************************************************************************)
MaxVal == 2

\* the config namespace object (vars(config)) and the template object
CFG == "config"
TPL == "template"

TopKeysPC == <<"model", "model_kwargs">>
SubKeysPC == {"pretrained", "dropout"}

ConfigScalars == {None, PyInt(1)}
TemplateScalars == {None} \cup {PyInt(n) : n \in 1..MaxVal}

\* what a top-level key may hold: nothing, a scalar, or an option group
Choices(V) ==
    {<<"absent">>} \cup V
        \cup {<<"dict", d>> : d \in UNION {[S -> V] : S \in SUBSET SubKeysPC}}

\* a namespace / template dict over TopKeysPC; its groups are objects o1, o2
TopDict(c1, c2, o1, o2) ==
    LET c == <<c1, c2>>
        o == <<o1, o2>>
        present == {i \in 1..2 : c[i] # <<"absent">>}
    IN  [k \in {TopKeysPC[i] : i \in present} |->
            LET i == CHOOSE j \in 1..2 : TopKeysPC[j] = k
            IN  IF c[i][1] = "dict" THEN Ref(o[i]) ELSE c[i]]

GroupObjects(c1, c2, o1, o2) ==
    LET c == <<c1, c2>>
        o == <<o1, o2>>
        dicts == {i \in 1..2 : c[i][1] = "dict"}
    IN  [x \in {o[i] : i \in dicts} |->
            LET i == CHOOSE j \in 1..2 : o[j] = x IN c[i][2]]

InitPC ==
    \E c1 \in Choices(ConfigScalars), c2 \in Choices(ConfigScalars),
       t1 \in Choices(TemplateScalars), t2 \in Choices(TemplateScalars),
       f \in BOOLEAN :
        /\ heap = (CFG :> TopDict(c1, c2, "config.1", "config.2"))
                    @@ (TPL :> TopDict(t1, t2, "template.1", "template.2"))
                    @@ GroupObjects(c1, c2, "config.1", "config.2")
                    @@ GroupObjects(t1, t2, "template.1", "template.2")
        /\ args = [fn |-> "populate_config", config |-> CFG, template |-> TPL,
                   force_compatibility |-> f]
        /\ pc = "pc_call"
        /\ exc = NoExc
        /\ entry = heap
        /\ applied = <<>>
        /\ calls = 0
        /\ batch = <<>>

\* one call populate_config(C, T, force_compatibility)
CallPopulateConfig ==
    /\ pc = "pc_call"
    /\ calls < 2
    /\ LET r == populate_config(heap, args.config, args.template,
                                args.force_compatibility)
       IN  /\ heap' = r.heap
           /\ exc' = r.exc
    /\ entry' = heap
    /\ calls' = calls + 1
    /\ UNCHANGED <<pc, args, applied, batch>>

NextPC == CallPopulateConfig

SpecPC == InitPC /\ [][NextPC]_vars

(***************************************************************************)
(* The preset registries (configs/datasets.py, algorithm.py, model.py,     *)
(* scheduler.py, data_loader.py).  populate_defaults only reads them; they *)
(* are objects of the heap like every other dict.  The tables below have   *)
(* the shape of the repository's tables: several layers define the same    *)
(* field with different values, a dataset preset holds "scheduler": None,  *)
(* and option groups are nested dicts.                                     *)
(***************************************************************************)
PyFloat(s) == <<"float", s>>

RegistryBase ==
    ("dataset_defaults" :> [camelyon17 |-> Ref("dataset_defaults.camelyon17")])
 @@ ("dataset_defaults.camelyon17" :>
        [ split_scheme |-> PyStr("official"),
          model |-> PyStr("densenet121"),
          model_kwargs |-> Ref("dataset_defaults.camelyon17.model_kwargs"),
          loss_function |-> PyStr("cross_entropy"),
          groupby_fields |-> PyList(<<"hospital">>),
          val_metric |-> PyStr("acc_avg"),
          val_metric_decreasing |-> PyBool(FALSE),
          optimizer |-> PyStr("SGD"),
          lr |-> PyFloat("1e-3"),
          weight_decay |-> PyFloat("1e-2"),
          n_epochs |-> PyInt(5),
          batch_size |-> PyInt(32),
          scheduler |-> None ])
 @@ ("dataset_defaults.camelyon17.model_kwargs" :> [pretrained |-> PyBool(FALSE)])
 @@ ("split_defaults" :> [camelyon17 |-> Ref("split_defaults.camelyon17")])
 @@ ("split_defaults.camelyon17" :>
        [official |-> Ref("split_defaults.camelyon17.official")])
 @@ ("split_defaults.camelyon17.official" :>
        [ batch_size |-> PyInt(16),
          n_epochs |-> PyInt(10),
          eval_loader |-> PyStr("group"),
          no_group_logging |-> PyBool(FALSE) ])
 @@ ("algorithm_defaults" :>
        [ ERM |-> Ref("algorithm_defaults.ERM"),
          DANN |-> Ref("algorithm_defaults.DANN") ])
 @@ ("algorithm_defaults.ERM" :>
        [ train_loader |-> PyStr("standard"),
          uniform_over_groups |-> PyBool(FALSE),
          eval_loader |-> PyStr("standard") ])
 @@ ("algorithm_defaults.DANN" :>
        [ train_loader |-> PyStr("group"),
          uniform_over_groups |-> PyBool(TRUE),
          eval_loader |-> PyStr("standard"),
          n_groups_per_batch |-> PyInt(2) ])
 @@ ("loader_defaults" :>
        [ loader_kwargs |-> Ref("loader_defaults.loader_kwargs"),
          n_groups_per_batch |-> PyInt(4),
          unlabeled_n_groups_per_batch |-> PyInt(4) ])
 @@ ("loader_defaults.loader_kwargs" :>
        [num_workers |-> PyInt(4), pin_memory |-> PyBool(TRUE)])
 @@ ("model_defaults" :>
        [ densenet121 |-> Ref("model_defaults.densenet121"),
          resnet50 |-> Ref("model_defaults.resnet50") ])
 @@ ("model_defaults.densenet121" :>
        [ optimizer |-> PyStr("Adam"),
          lr |-> PyFloat("1e-4"),
          scheduler |-> PyStr("linear_schedule_with_warmup"),
          model_kwargs |-> Ref("model_defaults.densenet121.model_kwargs") ])
 @@ ("model_defaults.densenet121.model_kwargs" :>
        [pretrained |-> PyBool(TRUE), dropout |-> PyInt(0)])
 @@ ("model_defaults.resnet50" :>
        [ optimizer |-> PyStr("AdamW"),
          model_kwargs |-> Ref("model_defaults.resnet50.model_kwargs") ])
 @@ ("model_defaults.resnet50.model_kwargs" :> [pretrained |-> PyBool(TRUE)])
 @@ ("scheduler_defaults" :>
        [ linear_schedule_with_warmup |->
              Ref("scheduler_defaults.linear_schedule_with_warmup"),
          StepLR |-> Ref("scheduler_defaults.StepLR") ])
 @@ ("scheduler_defaults.linear_schedule_with_warmup" :>
        [ scheduler_kwargs |->
              Ref("scheduler_defaults.linear_schedule_with_warmup.scheduler_kwargs"),
          n_epochs |-> PyInt(3) ])
 @@ ("scheduler_defaults.linear_schedule_with_warmup.scheduler_kwargs" :>
        [num_warmup_steps |-> PyInt(0)])
 @@ ("scheduler_defaults.StepLR" :>
        [scheduler_kwargs |-> Ref("scheduler_defaults.StepLR.scheduler_kwargs")])
 @@ ("scheduler_defaults.StepLR.scheduler_kwargs" :> [step_size |-> PyInt(1)])
 @@ ("swav_dataset_defaults" :>
        [camelyon17 |-> Ref("swav_dataset_defaults.camelyon17")])
 @@ ("swav_dataset_defaults.camelyon17" :>
        [ n_epochs |-> PyInt(5),
          warmup_epochs |-> PyInt(0),
          lr |-> PyFloat("1e-3"),
          model_kwargs |-> Ref("swav_dataset_defaults.camelyon17.model_kwargs") ])
 @@ ("swav_dataset_defaults.camelyon17.model_kwargs" :> [dropout |-> PyInt(1)])

\* the objects of the registries
PresetObjects == DOMAIN RegistryBase

\* preset entries a registry may lack: every subset of them is left out in
\* some initial state
Droppable ==
    { <<"dataset_defaults.camelyon17", "lr">>,
      <<"model_defaults.densenet121", "lr">>,
      <<"dataset_defaults.camelyon17", "batch_size">>,
      <<"dataset_defaults.camelyon17", "weight_decay">>,
      <<"dataset_defaults.camelyon17", "groupby_fields">> }

Registry(drop) ==
    [o \in PresetObjects |->
        [k \in {x \in DOMAIN RegistryBase[o] : <<o, x>> \notin drop} |->
            RegistryBase[o][k]]]

(***************************************************************************)
(* The settings namespace as the argument parser builds it: every          *)
(* attribute present, None unless the caller supplied it, every *_kwargs   *)
(* attribute a dict of its own.                                            *)
(***************************************************************************)
ConfigBase ==
    (CFG :>
        [ dataset |-> PyStr("camelyon17"),
          algorithm |-> PyStr("ERM"),
          groupby_fields |-> None,
          n_groups_per_batch |-> None,
          unlabeled_n_groups_per_batch |-> None,
          split_scheme |-> None,
          train_loader |-> None,
          uniform_over_groups |-> None,
          batch_size |-> None,
          eval_loader |-> None,
          model |-> None,
          model_kwargs |-> Ref("config.model_kwargs"),
          loss_function |-> None,
          val_metric |-> None,
          val_metric_decreasing |-> None,
          n_epochs |-> None,
          optimizer |-> None,
          lr |-> None,
          weight_decay |-> None,
          scheduler |-> None,
          scheduler_kwargs |-> Ref("config.scheduler_kwargs"),
          loader_kwargs |-> Ref("config.loader_kwargs"),
          no_group_logging |-> None,
          final_lr |-> None,
          warmup_epochs |-> None ])
 @@ ("config.model_kwargs" :> <<>>)
 @@ ("config.scheduler_kwargs" :> <<>>)
 @@ ("config.loader_kwargs" :> <<>>)

\* what the caller may supply: <<object, key, value>>
CallerChoices ==
    { <<CFG, "dataset", None>>,
      <<CFG, "algorithm", None>>,
      <<CFG, "algorithm", PyStr("DANN")>>,
      <<CFG, "groupby_fields", PyList(<<"from_source_domain">>)>>,
      <<CFG, "groupby_fields", PyList(<<"hospital">>)>>,
      <<CFG, "n_groups_per_batch", PyInt(1)>>,
      <<CFG, "n_groups_per_batch", PyInt(2)>>,
      <<CFG, "unlabeled_n_groups_per_batch", PyInt(1)>>,
      <<CFG, "unlabeled_n_groups_per_batch", PyInt(2)>>,
      <<CFG, "lr", PyFloat("0.5")>>,
      <<CFG, "split_scheme", PyStr("official")>>,
      <<CFG, "split_scheme", PyStr("mixed-to-test")>>,
      <<CFG, "model", PyStr("resnet50")>>,
      <<CFG, "model", PyStr("")>>,
      <<CFG, "scheduler", PyStr("StepLR")>>,
      <<CFG, "batch_size", PyInt(64)>>,
      <<CFG, "model_kwargs", None>>,
      <<"config.model_kwargs", "pretrained", PyBool(TRUE)>> }

\* the number of attributes the caller supplies
MaxSet == 2

RECURSIVE UpTo(_, _)
UpTo(S, n) ==
    IF n = 0 THEN {{}}
    ELSE LET P == UpTo(S, n - 1) IN P \cup {p \cup {x} : p \in P, x \in S}

CallerSets ==
    { ov \in UpTo(CallerChoices, MaxSet) :
        \A a \in ov, b \in ov : (a[1] = b[1] /\ a[2] = b[2]) => a = b }

ConfigObjects(ov) ==
    [o \in DOMAIN ConfigBase |->
        [k \in DOMAIN ConfigBase[o] \cup {t[2] : t \in {u \in ov : u[1] = o}} |->
            IF \E t \in ov : t[1] = o /\ t[2] = k
            THEN (CHOOSE t \in ov : t[1] = o /\ t[2] = k)[3]
            ELSE ConfigBase[o][k]]]

InitPD ==
    \E ov \in CallerSets, drop \in SUBSET Droppable :
        /\ heap = Registry(drop) @@ ConfigObjects(ov)
        /\ entry = heap
        /\ args = [fn |-> "populate_defaults", config |-> CFG]
        /\ pc = "pd_asserts"
        /\ exc = NoExc
        /\ applied = <<>>
        /\ calls = 1
        /\ batch = <<>>

(***************************************************************************)
(* populate_defaults, one action per step of its body.                     *)
(***************************************************************************)
\* config.<f>
Attr(h, f) == h[CFG][f]

\* config.<f> = v
SetAttr(h, f, v) == SetItem(h, CFG, f, v)

\* "name in table", for a table keyed by strings
In(h, table, name) == name[1] = "str" /\ name[2] \in DOMAIN h[table]

\* table[name], a preset dict
At(h, table, name) == Obj(h[table][name[2]])

\* the steps with the loader layer ahead of the algorithm layer
PDStepsLoaderFirst ==
    << "pd_asserts", "pd_groupby", "pd_dann", "pd_dataset", "pd_split",
       "pd_loader", "pd_algorithm", "pd_model", "pd_scheduler", "pd_misc",
       "pd_required", "returned" >>

\* the steps with the pre-checks behind the dataset layer
PDStepsChecksLate ==
    << "pd_asserts", "pd_dataset", "pd_groupby", "pd_dann", "pd_split",
       "pd_algorithm", "pd_loader", "pd_model", "pd_scheduler", "pd_misc",
       "pd_required", "returned" >>

\* the steps of populate_defaults in program order
PDSteps ==
    << "pd_asserts", "pd_groupby", "pd_dann", "pd_dataset", "pd_split",
       "pd_algorithm", "pd_loader", "pd_model", "pd_scheduler", "pd_misc",
       "pd_required", "returned" >>

\* the step after step p
After(p) == PDSteps[(CHOOSE i \in 1..Len(PDSteps) : PDSteps[i] = p) + 1]

Frame == UNCHANGED <<args, entry, calls, batch>>

\* the step ends by raising e, or goes on to the next step
Outcome(e) ==
    IF e = NoExc THEN pc' = After(pc) /\ exc' = exc
    ELSE pc' = "raised" /\ exc' = e

\* lines 10-11
PD_Asserts ==
    /\ pc = "pd_asserts"
    /\ Outcome(IF Attr(heap, "dataset") = None
               THEN Raise("AssertionError", "dataset")
               ELSE IF Attr(heap, "algorithm") = None
               THEN Raise("AssertionError", "algorithm")
               ELSE NoExc)
    /\ UNCHANGED <<heap, applied>>
    /\ Frame

\* "config.groupby_fields == ['from_source_domain']"
FromSourceDomain(v) == v = PyList(<<"from_source_domain">>)

\* a count check that sets an unset count and accepts any other
group_count_lenient(h, f) ==
    IF h[CFG][f] = None
    THEN [heap |-> SetItem(h, CFG, f, PyInt(1)), exc |-> NoExc]
    ELSE [heap |-> h, exc |-> NoExc]

\* lines 15-21 (f = n_groups_per_batch), lines 23-29
\* (f = unlabeled_n_groups_per_batch)
group_count_check(h, f) ==
    IF Attr(h, f) = None
    THEN [heap |-> SetAttr(h, f, PyInt(1)), exc |-> NoExc]
    ELSE IF Attr(h, f) # PyInt(1)
    THEN [heap |-> h, exc |-> Raise("ValueError", f)]
    ELSE [heap |-> h, exc |-> NoExc]

\* lines 14-29
groupby_check(h) ==
    IF FromSourceDomain(Attr(h, "groupby_fields"))
    THEN LET r == group_count_check(h, "n_groups_per_batch")
         IN  IF r.exc # NoExc THEN r
             ELSE group_count_check(r.heap, "unlabeled_n_groups_per_batch")
    ELSE [heap |-> h, exc |-> NoExc]

PD_Groupby ==
    /\ pc = "pd_groupby"
    /\ LET r == groupby_check(heap)
       IN  heap' = r.heap /\ Outcome(r.exc)
    /\ UNCHANGED applied
    /\ Frame

\* an lr check that never fires
dann_lr_never(h) == FALSE

\* "config.algorithm == 'DANN' and config.lr is not None"
dann_lr_given(h) == Attr(h, "algorithm") = PyStr("DANN") /\ Attr(h, "lr") # None

\* lines 31-35
PD_Dann ==
    /\ pc = "pd_dann"
    /\ Outcome(IF dann_lr_given(heap) THEN Raise("ValueError", "lr") ELSE NoExc)
    /\ UNCHANGED <<heap, applied>>
    /\ Frame

\* config = populate_config(config, template) for the preset layer `layer`
ApplyLayer(layer, template) ==
    LET r == populate_config(heap, CFG, template, FALSE)
    IN  /\ heap' = r.heap
        /\ applied' = Append(applied, <<layer, template>>)
        /\ Outcome(r.exc)

SkipLayer ==
    /\ Outcome(NoExc)
    /\ UNCHANGED <<heap, applied>>

\* table[config.<f>] of a layer that is looked up unconditionally
LookupLayer(layer, table, f) ==
    IF In(heap, table, Attr(heap, f))
    THEN ApplyLayer(layer, At(heap, table, Attr(heap, f)))
    ELSE /\ Outcome(Raise("KeyError", f))
         /\ UNCHANGED <<heap, applied>>

\* lines 39-42
PD_Dataset ==
    /\ pc = "pd_dataset"
    /\ LookupLayer("dataset", "dataset_defaults", "dataset")
    /\ Frame

\* lines 45-49
PD_Split ==
    /\ pc = "pd_split"
    /\ IF /\ In(heap, "split_defaults", Attr(heap, "dataset"))
          /\ In(heap, At(heap, "split_defaults", Attr(heap, "dataset")),
                Attr(heap, "split_scheme"))
       THEN ApplyLayer("split",
                At(heap, At(heap, "split_defaults", Attr(heap, "dataset")),
                   Attr(heap, "split_scheme")))
       ELSE SkipLayer
    /\ Frame

\* lines 52-55
PD_Algorithm ==
    /\ pc = "pd_algorithm"
    /\ LookupLayer("algorithm", "algorithm_defaults", "algorithm")
    /\ Frame

\* lines 58-61
PD_Loader ==
    /\ pc = "pd_loader"
    /\ ApplyLayer("loader", "loader_defaults")
    /\ Frame

\* lines 63-66
PD_Model ==
    /\ pc = "pd_model"
    /\ IF Truthy(heap, Attr(heap, "model"))
       THEN LookupLayer("model", "model_defaults", "model")
       ELSE SkipLayer
    /\ Frame

\* lines 69-72
PD_Scheduler ==
    /\ pc = "pd_scheduler"
    /\ IF Truthy(heap, Attr(heap, "scheduler"))
       THEN LookupLayer("scheduler", "scheduler_defaults", "scheduler")
       ELSE SkipLayer
    /\ Frame

\* lines 75-77
misc_defaults(h) ==
    LET h1 == IF Attr(h, "groupby_fields") = None
              THEN SetAttr(h, "no_group_logging", PyBool(TRUE))
              ELSE h
    IN  SetAttr(h1, "no_group_logging",
                PyBool(Truthy(h1, Attr(h1, "no_group_logging"))))

PD_Misc ==
    /\ pc = "pd_misc"
    /\ heap' = misc_defaults(heap)
    /\ Outcome(NoExc)
    /\ UNCHANGED applied
    /\ Frame

\* lines 80-83
required_fields ==
    << "split_scheme", "train_loader", "uniform_over_groups", "batch_size",
       "eval_loader", "model", "loss_function", "val_metric",
       "val_metric_decreasing", "n_epochs", "optimizer", "lr", "weight_decay" >>

\* a last step that asserts nothing
PD_RequiredUnchecked ==
    /\ pc = "pd_required"
    /\ pc' = "returned"
    /\ UNCHANGED <<heap, applied, exc, args, entry, calls, batch>>

\* lines 84-87: the first failing assert of the loop, if any
PD_Required ==
    /\ pc = "pd_required"
    /\ LET missing == SelectSeq(required_fields,
                                LAMBDA f : Attr(heap, f) = None)
       IN  Outcome(IF missing # <<>>
                   THEN Raise("AssertionError", Head(missing))
                   ELSE NoExc)
    /\ UNCHANGED <<heap, applied>>
    /\ Frame

NextPD ==
    \/ PD_Asserts
    \/ PD_Groupby
    \/ PD_Dann
    \/ PD_Dataset
    \/ PD_Split
    \/ PD_Algorithm
    \/ PD_Loader
    \/ PD_Model
    \/ PD_Scheduler
    \/ PD_Misc
    \/ PD_Required

SpecPD == InitPD /\ [][NextPD]_vars

(***************************************************************************)
(* Calls in sequence on one config: populate_defaults (stepwise, as above),*)
(* populate_defaults_for_swav and populate_config with any preset table.   *)
(***************************************************************************)
\* the number of calls made on the config
MaxCalls == 2

\* "config.lr / 1000."
Quotient(v, n) == <<"quot", v, n>>

\* "a < b": None is not ordered
Less(a, b) ==
    IF a[1] = "int" /\ b[1] = "int"
    THEN IF a[2] < b[2] THEN NoExc ELSE Raise("AssertionError", "warmup_epochs")
    ELSE Raise("TypeError", "warmup_epochs")

\* lines 89-107
populate_defaults_for_swav(h) ==
    IF Attr(h, "dataset") = None
    THEN [heap |-> h, exc |-> Raise("AssertionError", "dataset")]
    ELSE
        LET h1 == IF Attr(h, "final_lr") = None /\ Truthy(h, Attr(h, "lr"))
                  THEN SetAttr(h, "final_lr", Quotient(Attr(h, "lr"), 1000))
                  ELSE h
        IN  IF ~In(h1, "swav_dataset_defaults", Attr(h1, "dataset"))
            THEN [heap |-> h1, exc |-> Raise("KeyError", "dataset")]
            ELSE
                LET r == populate_config(h1, CFG,
                             At(h1, "swav_dataset_defaults", Attr(h1, "dataset")),
                             FALSE)
                IN  IF r.exc # NoExc THEN r
                    ELSE [heap |-> r.heap,
                          exc |-> Less(Attr(r.heap, "warmup_epochs"),
                                       Attr(r.heap, "n_epochs"))]

\* the preset tables a caller can hand to populate_config
Templates ==
    { "None", "dataset_defaults.camelyon17", "split_defaults.camelyon17.official",
      "algorithm_defaults.ERM", "algorithm_defaults.DANN", "loader_defaults",
      "model_defaults.densenet121", "model_defaults.resnet50",
      "scheduler_defaults.linear_schedule_with_warmup",
      "scheduler_defaults.StepLR", "swav_dataset_defaults.camelyon17" }

Idle == pc \in {"returned", "raised"} /\ calls < MaxCalls

\* the call returns or raises
Finish(r) ==
    /\ heap' = r.heap
    /\ exc' = r.exc
    /\ pc' = IF r.exc = NoExc THEN "returned" ELSE "raised"
    /\ entry' = heap
    /\ calls' = calls + 1
    /\ applied' = <<>>
    /\ UNCHANGED batch

Call_populate_defaults ==
    /\ Idle
    /\ args' = [fn |-> "populate_defaults", config |-> CFG]
    /\ pc' = "pd_asserts"
    /\ exc' = NoExc
    /\ entry' = heap
    /\ calls' = calls + 1
    /\ applied' = <<>>
    /\ UNCHANGED <<heap, batch>>

Call_populate_defaults_for_swav ==
    /\ Idle
    /\ args' = [fn |-> "populate_defaults_for_swav", config |-> CFG]
    /\ Finish(populate_defaults_for_swav(heap))

Call_populate_config ==
    /\ Idle
    /\ \E t \in Templates, f \in BOOLEAN :
          /\ args' = [fn |-> "populate_config", config |-> CFG,
                      template |-> t, force_compatibility |-> f]
          /\ Finish(populate_config(heap, CFG, t, f))

InitCalls ==
    \E ov \in UpTo(CallerChoices, 1) :
        /\ heap = Registry({}) @@ ConfigObjects(ov)
        /\ entry = heap
        /\ args = [fn |-> "", config |-> CFG]
        /\ pc = "returned"
        /\ exc = NoExc
        /\ applied = <<>>
        /\ calls = 0
        /\ batch = <<>>

NextCalls ==
    \/ Call_populate_defaults
    \/ Call_populate_defaults_for_swav
    \/ Call_populate_config
    \/ NextPD

SpecCalls == InitCalls /\ [][NextCalls]_vars

(***************************************************************************)
(* DeepCORAL.objective.  Tensor values are exact rationals <<num, den>>    *)
(* with den > 0; <<0, 0>> is nan (0/0, the covariance of a one-row group). *)
(* Features have one dimension, so a feature tensor is a sequence of       *)
(* rationals, one per row.                                                 *)
(***************************************************************************)
RECURSIVE GCD(_, _)
GCD(a, b) == IF b = 0 THEN a ELSE GCD(b, a % b)

Abs(a) == IF a < 0 THEN -a ELSE a

NaN == <<0, 0>>

\* the rational n/d in lowest terms; x/0 is nan
Rat(n, d) ==
    IF d = 0 THEN NaN
    ELSE LET k == GCD(Abs(n), Abs(d))
             sgn == IF d < 0 THEN -1 ELSE 1
         IN  <<sgn * (n \div k), sgn * (d \div k)>>

RatAdd(a, b) == IF a = NaN \/ b = NaN THEN NaN
                ELSE Rat(a[1] * b[2] + b[1] * a[2], a[2] * b[2])
RatSub(a, b) == IF a = NaN \/ b = NaN THEN NaN
                ELSE Rat(a[1] * b[2] - b[1] * a[2], a[2] * b[2])
RatMul(a, b) == IF a = NaN \/ b = NaN THEN NaN
                ELSE Rat(a[1] * b[1], a[2] * b[2])
RatDiv(a, b) == IF a = NaN \/ b = NaN THEN NaN
                ELSE Rat(a[1] * b[2], a[2] * b[1])

RECURSIVE SumSeq(_)
SumSeq(x) == IF x = <<>> THEN Rat(0, 1) ELSE RatAdd(Head(x), SumSeq(Tail(x)))

\* x.mean(0)
Mean(x) == RatDiv(SumSeq(x), Rat(Len(x), 1))

\* lines 61-71, for features of one dimension
coral_penalty(x, y) ==
    LET mean_x == Mean(x)
        mean_y == Mean(y)
        cent_x == [i \in 1..Len(x) |-> RatSub(x[i], mean_x)]
        cent_y == [i \in 1..Len(y) |-> RatSub(y[i], mean_y)]
        cova_x == RatDiv(SumSeq([i \in 1..Len(x) |-> RatMul(cent_x[i], cent_x[i])]),
                         Rat(Len(x) - 1, 1))
        cova_y == RatDiv(SumSeq([i \in 1..Len(y) |-> RatMul(cent_y[i], cent_y[i])]),
                         Rat(Len(y) - 1, 1))
        mean_diff == RatMul(RatSub(mean_x, mean_y), RatSub(mean_x, mean_y))
        cova_diff == RatMul(RatSub(cova_x, cova_y), RatSub(cova_x, cova_y))
    IN  RatAdd(mean_diff, cova_diff)

\* the elements of a set of integers in increasing order
RECURSIVE Sorted(_)
Sorted(S) ==
    IF S = {} THEN <<>>
    ELSE LET m == CHOOSE x \in S : \A y \in S : x <= y
         IN  <<m>> \o Sorted(S \ {m})

\* wilds.common.utils.split_into_groups(g): the group ids of g and, for each,
\* the positions of its rows
split_into_groups(g) ==
    LET unique_groups == Sorted(Range(g))
    IN  [ unique_groups |-> unique_groups,
          group_indices |->
              [k \in 1..Len(unique_groups) |->
                  SelectSeq([i \in 1..Len(g) |-> i],
                            LAMBDA i : g[i] = unique_groups[k])] ]

\* features[indices]
Index(features, indices) == [k \in 1..Len(indices) |-> features[indices[k]]]

\* lines 122-124: the penalty of groups i_group and j_group
pair_penalty(i_group, j_group, n, group_indices, lf, uf) ==
    LET i_features == IF i_group < n THEN lf ELSE uf
        j_features == IF j_group < n THEN lf ELSE uf
    IN  coral_penalty(Index(i_features, group_indices[i_group + 1]),
                      Index(j_features, group_indices[j_group + 1]))

\* lines 120-124: the two loops, from (i_group, j_group) on; groups are
\* numbered from 0 as in the source, n is n_groups_per_batch, lf and uf are
\* labeled_features and unlabeled_features
RECURSIVE penalty_loop(_, _, _, _, _, _, _)
penalty_loop(i_group, j_group, total, n, group_indices, lf, uf) ==
    IF i_group >= total THEN Rat(0, 1)
    ELSE IF j_group >= total
    THEN penalty_loop(i_group + 1, i_group + 2, total, n, group_indices, lf, uf)
    ELSE RatAdd(pair_penalty(i_group, j_group, n, group_indices, lf, uf),
                penalty_loop(i_group, j_group + 1, total, n, group_indices, lf, uf))

\* the number of ordered pairs
n_pairs_ordered(total_groups_per_batch) ==
    total_groups_per_batch * (total_groups_per_batch - 1)

\* line 126: total_groups_per_batch * (total_groups_per_batch-1) / 2
n_pairs(total_groups_per_batch) ==
    (total_groups_per_batch * (total_groups_per_batch - 1)) \div 2

\* lines 104-128
penalty_of(results, is_training) ==
    IF is_training
    THEN LET s == split_into_groups(results["g"])
             n_groups_per_batch == Len(s.unique_groups)
             has_unlabeled == "unlabeled_features" \in DOMAIN results
             u == IF has_unlabeled THEN split_into_groups(results["unlabeled_g"])
                  ELSE [unique_groups |-> <<>>, group_indices |-> <<>>]
             unlabeled_groups_per_batch == Len(u.unique_groups)
             group_indices == s.group_indices \o u.group_indices
             total_groups_per_batch ==
                 n_groups_per_batch + unlabeled_groups_per_batch
             penalty == penalty_loop(0, 1, total_groups_per_batch,
                            n_groups_per_batch, group_indices,
                            results["features"],
                            IF has_unlabeled THEN results["unlabeled_features"]
                            ELSE <<>>)
         IN  IF total_groups_per_batch > 1
             THEN RatDiv(penalty, Rat(n_pairs(total_groups_per_batch), 1))
             ELSE penalty
    ELSE Rat(0, 1)

\* lines 100-137: the results mapping after the call and the value returned
objective(results, is_training, avg_loss, penalty_weight) ==
    LET penalty == penalty_of(results, is_training)
        popped == IF is_training THEN {"features", "unlabeled_features"}
                  ELSE {"features"}
    IN  [ results |-> ("penalty" :> penalty)
                        @@ [k \in DOMAIN results \ popped |-> results[k]],
          ret |-> RatAdd(avg_loss, RatMul(penalty, penalty_weight)) ]

\* the number of rows of the labeled batch
MaxRows == 4

GroupIds == {0, 1}

\* labeled rows <<group, feature>>
LabeledBatches ==
    UNION {[1..n -> GroupIds \X {0, 1}] : n \in 1..MaxRows}

\* no unlabeled batch, or two unlabeled rows
UnlabeledBatches == {<<>>} \cup [1..2 -> GroupIds \X {0, 2}]

InitCoral ==
    \E lb \in LabeledBatches, ub \in UnlabeledBatches, t \in BOOLEAN,
       w \in {1, 2} :
        /\ batch = [ results |->
                        [g |-> [i \in 1..Len(lb) |-> lb[i][1]],
                         features |-> [i \in 1..Len(lb) |-> Rat(lb[i][2], 1)],
                         y_pred |-> <<>>, y_true |-> <<>>]
                        @@ IF ub = <<>> THEN <<>>
                           ELSE [unlabeled_g |-> [i \in 1..Len(ub) |-> ub[i][1]],
                                 unlabeled_features |->
                                     [i \in 1..Len(ub) |-> Rat(ub[i][2], 1)]],
                     given |-> [lb |-> lb, ub |-> ub],
                     is_training |-> t,
                     avg_loss |-> Rat(1, 1),
                     penalty_weight |-> Rat(w, 1),
                     ret |-> NaN ]
        /\ pc = "obj_call"
        /\ args = [fn |-> "objective"]
        /\ exc = NoExc
        /\ heap = <<>>
        /\ entry = <<>>
        /\ applied = <<>>
        /\ calls = 0

Call_objective ==
    /\ pc = "obj_call"
    /\ LET r == objective(batch.results, batch.is_training, batch.avg_loss,
                          batch.penalty_weight)
       IN  batch' = [batch EXCEPT !.results = r.results, !.ret = r.ret]
    /\ pc' = "returned"
    /\ UNCHANGED <<heap, exc, args, entry, applied, calls>>

NextCoral == Call_objective

SpecCoral == InitCoral /\ [][NextCoral]_vars

(***************************************************************************)
(* Claims about populate_config (checked under SpecPC).  After the first   *)
(* call, entry[1] is C and heap[1] is populate_config(C, T); after the     *)
(* second, entry is the result of the first call.                          *)
(***************************************************************************)
\* every entry of dict a that is non-null is still there, unchanged, in dict b
NonNullKept(a, b) ==
    \A k \in DOMAIN a : a[k] # None => (k \in DOMAIN b /\ b[k] = a[k])

\* Python "==" of a value of heap h1 and a value of heap h2 (dicts by content)
PyEq(h1, v1, h2, v2) ==
    IF IsDict(v1) /\ IsDict(v2) THEN h1[Obj(v1)] = h2[Obj(v2)] ELSE v1 = v2

\* C and T both hold an option group under key k
BothGroups(h, k) ==
    /\ k \in DOMAIN h[CFG] /\ k \in DOMAIN h[TPL]
    /\ IsDict(h[CFG][k]) /\ IsDict(h[TPL][k])

\* C1: non-strict populate_config(C, T) changes no field (top-level field or
\* option-group sub-key) that is non-null in C, and a second application
\* with the same T leaves the config as the first application left it.
C1_NoOverwriteIdempotent ==
    (calls >= 1 /\ ~args.force_compatibility) =>
        /\ NonNullKept(entry[CFG], heap[CFG])
        /\ \A k \in DOMAIN entry[CFG] :
              IsDict(entry[CFG][k]) =>
                  NonNullKept(entry[Obj(entry[CFG][k])], heap[Obj(entry[CFG][k])])
        /\ calls = 2 => heap = entry

\* C1 witness: applied twice without error to a config whose non-null scalar
\* and non-null group sub-key both differ from the template's values.
C1_Witness ==
    /\ calls = 2 /\ ~args.force_compatibility /\ exc = NoExc
    /\ "model" \in DOMAIN heap[CFG] /\ heap[CFG]["model"] = PyInt(1)
    /\ "model" \in DOMAIN heap[TPL] /\ heap[TPL]["model"] = PyInt(2)
    /\ BothGroups(heap, "model_kwargs")
    /\ "dropout" \in DOMAIN heap[Obj(heap[TPL]["model_kwargs"])]
    /\ heap[Obj(heap[TPL]["model_kwargs"])]["dropout"] = PyInt(2)
    /\ heap[Obj(heap[CFG]["model_kwargs"])]["dropout"] = PyInt(1)
    /\ "pretrained" \in DOMAIN heap[Obj(heap[CFG]["model_kwargs"])]
    /\ heap[Obj(heap[CFG]["model_kwargs"])]["pretrained"] = PyInt(2)

\* C2: after populate_config(C, T) every key of T that was absent or None in
\* C, scalar or option group, is in C with the template's value, and an
\* option group present in both is merged sub-key by sub-key.
C2_FillsEveryUnsetKey ==
    (calls = 1 /\ ~args.force_compatibility) =>
        \A k \in DOMAIN entry[TPL] :
            /\ Unset(entry[CFG], k) =>
                  /\ k \in DOMAIN heap[CFG]
                  /\ PyEq(heap, heap[CFG][k], entry, entry[TPL][k])
            /\ BothGroups(entry, k) =>
                  LET c == Obj(entry[CFG][k])
                      t == Obj(entry[TPL][k])
                  IN  /\ NonNullKept(entry[c], heap[c])
                      /\ \A kk \in DOMAIN entry[t] :
                            Unset(entry[c], kk) =>
                                (kk \in DOMAIN heap[c] /\ heap[c][kk] = entry[t][kk])

\* a scalar key of T, or a sub-key of a group both have, is in both C and T
\* with different values
SharedKeyDiffers(h) ==
    \/ \E k \in DOMAIN h[TPL] \cap DOMAIN h[CFG] :
          ~IsDict(h[TPL][k]) /\ h[CFG][k] # h[TPL][k]
    \/ \E k \in DOMAIN h[TPL] :
          /\ BothGroups(h, k)
          /\ \E kk \in DOMAIN h[Obj(h[TPL][k])] \cap DOMAIN h[Obj(h[CFG][k])] :
                h[Obj(h[CFG][k])][kk] # h[Obj(h[TPL][k])][kk]

\* the same, for keys whose value in C is set (not None)
SetKeyDiffers(h) ==
    \/ \E k \in DOMAIN h[TPL] \cap DOMAIN h[CFG] :
          ~IsDict(h[TPL][k]) /\ h[CFG][k] # None /\ h[CFG][k] # h[TPL][k]
    \/ \E k \in DOMAIN h[TPL] :
          /\ BothGroups(h, k)
          /\ \E kk \in DOMAIN h[Obj(h[TPL][k])] \cap DOMAIN h[Obj(h[CFG][k])] :
                /\ h[Obj(h[CFG][k])][kk] # None
                /\ h[Obj(h[CFG][k])][kk] # h[Obj(h[TPL][k])][kk]

\* C3 as stated: strict populate_config raises if and only if some shared key
\* holds a different value in C than in T; non-strict never raises on a
\* mismatch.
C3_StrictRaisesIffDiffer ==
    calls = 1 =>
        IF args.force_compatibility
        THEN (exc # NoExc) <=> SharedKeyDiffers(entry)
        ELSE exc[1] # "ValueError"

\* C3 amended: strict populate_config raises ValueError only if some shared
\* key holds a value in C that is set (not None) and differs from T's; when
\* such a key exists the strict call raises; non-strict never raises
\* ValueError.
C3_StrictRaisesOnSetMismatch ==
    calls = 1 =>
        IF args.force_compatibility
        THEN /\ exc[1] = "ValueError" => SetKeyDiffers(entry)
             /\ SetKeyDiffers(entry) => exc # NoExc
        ELSE exc[1] # "ValueError"

\* C3 witness: a strict call raised ValueError on a mismatching sub-key of an
\* option group after filling a top-level key.
C3_Witness ==
    /\ calls = 1 /\ args.force_compatibility
    /\ exc = Raise("ValueError", "model_kwargs")
    /\ BothGroups(entry, "model_kwargs")
    /\ "model" \notin DOMAIN entry[CFG] /\ "model" \in DOMAIN heap[CFG]

(***************************************************************************)
(* Claims about populate_defaults (checked under SpecPD).  entry is the    *)
(* heap as the caller handed it over; entry[CFG] holds the values the      *)
(* caller supplied.                                                        *)
(***************************************************************************)
InPD == args.fn = "populate_defaults"

\* the step numbered as in PDSteps; "raised" has no number
Reached(p) ==
    /\ pc # "raised"
    /\ \E i, j \in 1..Len(PDSteps) : PDSteps[i] = p /\ PDSteps[j] = pc /\ j >= i

GroupCounts == {"n_groups_per_batch", "unlabeled_n_groups_per_batch"}

CallerFromSourceDomain == entry[CFG]["groupby_fields"] = PyList(<<"from_source_domain">>)

\* heaps a and b agree except on the config attributes in F
SameExcept(a, b, F) ==
    /\ DOMAIN a = DOMAIN b
    /\ \A o \in DOMAIN a :
          /\ DOMAIN a[o] = DOMAIN b[o]
          /\ \A k \in DOMAIN a[o] : (o = CFG /\ k \in F) \/ a[o][k] = b[o][k]

\* C5: with groupby_fields == ['from_source_domain'] the two group counts
\* are set to 1 when unset and a count pre-set to another value makes
\* populate_defaults raise, so a successful resolution has both counts 1;
\* with any other groupby_fields the rule neither sets nor checks a count.
C5_FromSourceDomainCounts ==
    InPD =>
        /\ (CallerFromSourceDomain /\ pc = "pd_dann") =>
              /\ \A f \in GroupCounts :
                    /\ entry[CFG][f] \in {None, PyInt(1)}
                    /\ heap[CFG][f] = PyInt(1)
              /\ SameExcept(heap, entry, GroupCounts)
        /\ (CallerFromSourceDomain /\ Reached("pd_dann")) =>
              \A f \in GroupCounts : heap[CFG][f] = PyInt(1)
        /\ (CallerFromSourceDomain /\ pc = "raised"
              /\ entry[CFG]["dataset"] # None /\ entry[CFG]["algorithm"] # None
              /\ \E f \in GroupCounts : entry[CFG][f] \notin {None, PyInt(1)}) =>
              (exc[1] = "ValueError" /\ exc[2] \in GroupCounts /\ applied = <<>>)
        /\ (~CallerFromSourceDomain) =>
              /\ ~(exc[1] = "ValueError" /\ exc[2] \in GroupCounts)
              /\ pc = "pd_dann" => heap = entry

\* C5 witness: a resolution with from_source_domain succeeded, the caller
\* having left n_groups_per_batch unset (the loader preset would give 4)
\* and pre-set the other count to 1.
C5_Witness ==
    /\ InPD /\ pc = "returned" /\ CallerFromSourceDomain
    /\ entry[CFG]["n_groups_per_batch"] = None
    /\ entry[CFG]["unlabeled_n_groups_per_batch"] = PyInt(1)
    /\ heap[CFG]["n_groups_per_batch"] = PyInt(1)

\* the required fields that are None in the config of heap h
Missing(h) == {i \in 1..Len(required_fields) : h[CFG][required_fields[i]] = None}

\* C6: populate_defaults returns only with every required field non-null;
\* if one is still null after the cascade it raises an error naming the
\* first missing field in checklist order.
C6_RequiredFields ==
    InPD =>
        /\ pc = "returned" => Missing(heap) = {}
        /\ (pc = "raised" /\ exc[1] = "AssertionError"
              /\ exc[2] \notin {"dataset", "algorithm"}) =>
              \E i \in Missing(heap) :
                  /\ exc[2] = required_fields[i]
                  /\ \A j \in Missing(heap) : i <= j
        /\ (pc = "raised" /\ exc[1] = "AssertionError") =>
              (heap[CFG][exc[2]] = None)

\* C6 witness: neither the caller nor any layer supplied lr or weight_decay,
\* and the error names lr, the first of the two in the checklist.
C6_Witness ==
    /\ InPD /\ pc = "raised" /\ exc = Raise("AssertionError", "lr")
    /\ heap[CFG]["weight_decay"] = None
    /\ Len(applied) >= 4

\* C7 as stated: when a pre-check raises, no preset layer has been applied
\* and no field has been written.
C7_PreCheckWritesNothing ==
    (InPD /\ pc = "raised" /\ exc[1] = "ValueError") =>
        (applied = <<>> /\ heap = entry)

\* C7 amended: when a pre-check raises, no preset layer has been applied,
\* and the only fields that may have been written are the group counts the
\* from_source_domain check set from None to 1 before the raise
\* (n_groups_per_batch when the unlabeled count's check raises, both when
\* the DANN lr check raises); every other field holds the caller's value.
C7_PreCheckWritesOnlyCounts ==
    (InPD /\ pc = "raised" /\ exc[1] = "ValueError") =>
        /\ applied = <<>>
        /\ SameExcept(heap, entry,
                      CASE exc[2] = "n_groups_per_batch" -> {}
                        [] exc[2] = "unlabeled_n_groups_per_batch" ->
                              {"n_groups_per_batch"}
                        [] OTHER -> GroupCounts)
        /\ \A f \in GroupCounts :
              heap[CFG][f] # entry[CFG][f] =>
                  /\ CallerFromSourceDomain
                  /\ entry[CFG][f] = None
                  /\ heap[CFG][f] = PyInt(1)

\* C7 witness: the unlabeled count's check raised after n_groups_per_batch
\* had been set to 1.
C7_Witness ==
    /\ InPD /\ pc = "raised"
    /\ exc = Raise("ValueError", "unlabeled_n_groups_per_batch")
    /\ entry[CFG]["n_groups_per_batch"] = None
    /\ heap[CFG]["n_groups_per_batch"] = PyInt(1)

CallerDANN == entry[CFG]["algorithm"] = PyStr("DANN")

\* the lr entries of the presets populate_defaults has applied
AppliedLr ==
    {entry[applied[i][2]]["lr"] :
        i \in {j \in 1..Len(applied) : "lr" \in DOMAIN entry[applied[j][2]]}}

\* C8: with algorithm DANN a caller-supplied lr makes populate_defaults
\* raise before any layer is applied (the lr check's ValueError, unless the
\* dataset assert or a group-count check raised first); the lr check fires
\* for no other algorithm; and a DANN resolution that succeeds carries an
\* lr filled by a preset layer.
C8_DANNForbidsLr ==
    InPD =>
        /\ (CallerDANN /\ entry[CFG]["lr"] # None) =>
              /\ ~Reached("pd_dataset")
              /\ pc = "raised" =>
                    /\ applied = <<>>
                    /\ \/ exc[1] = "ValueError"
                       \/ exc = Raise("AssertionError", "dataset")
              /\ (pc = "raised" /\ entry[CFG]["dataset"] # None
                    /\ ~CallerFromSourceDomain) => exc = Raise("ValueError", "lr")
        /\ (pc = "raised" /\ exc = Raise("ValueError", "lr")) =>
              (CallerDANN /\ entry[CFG]["lr"] # None)
        /\ (CallerDANN /\ pc = "returned") =>
              /\ entry[CFG]["lr"] = None
              /\ heap[CFG]["lr"] # None
              /\ heap[CFG]["lr"] \in AppliedLr

\* C8 witness: a DANN resolution succeeded with the lr of the model preset,
\* the dataset preset giving none.
C8_Witness ==
    /\ InPD /\ pc = "returned" /\ CallerDANN
    /\ heap[CFG]["lr"] = PyFloat("1e-4")

(***************************************************************************)
(* C4: the order of the preset layers and their precedence.                *)
(***************************************************************************)
LayerOrder == <<"dataset", "split", "algorithm", "loader", "model", "scheduler">>

LayerIndex(l) == CHOOSE i \in 1..Len(LayerOrder) : LayerOrder[i] = l

\* the position in applied of layer l, 0 when it was not applied
AppliedAt(l) ==
    IF \E i \in 1..Len(applied) : applied[i][1] = l
    THEN CHOOSE i \in 1..Len(applied) : applied[i][1] = l
    ELSE 0

\* layers are applied in the fixed order, each at most once; by the time a
\* later step is reached the unconditional layers have been applied, and a
\* conditional layer has been applied only for the value its selector has
\* after the earlier layers, with the preset that value selects
LayersInOrder ==
    /\ \A i, j \in 1..Len(applied) :
          i < j => LayerIndex(applied[i][1]) < LayerIndex(applied[j][1])
    /\ pc = "pd_split" =>
          applied = << <<"dataset", At(entry, "dataset_defaults",
                                       heap[CFG]["dataset"])>> >>
    /\ pc = "pd_algorithm" =>
          IF In(entry, "split_defaults.camelyon17", heap[CFG]["split_scheme"])
          THEN /\ AppliedAt("split") = Len(applied)
               /\ applied[Len(applied)][2] =
                     At(entry, "split_defaults.camelyon17",
                        heap[CFG]["split_scheme"])
          ELSE AppliedAt("split") = 0
    /\ pc = "pd_loader" =>
          /\ AppliedAt("algorithm") = Len(applied)
          /\ applied[Len(applied)][2] =
                At(entry, "algorithm_defaults", heap[CFG]["algorithm"])
    /\ pc = "pd_model" =>
          applied[Len(applied)] = <<"loader", "loader_defaults">>
    /\ pc = "pd_scheduler" =>
          IF AppliedAt("model") # 0
          THEN /\ heap[CFG]["model"] # None
               /\ applied[Len(applied)] =
                     <<"model", At(entry, "model_defaults", heap[CFG]["model"])>>
          ELSE applied[Len(applied)][1] = "loader"
    /\ (pc = "pd_misc" /\ AppliedAt("scheduler") # 0) =>
          /\ heap[CFG]["scheduler"] # None
          /\ applied[Len(applied)] =
                <<"scheduler", At(entry, "scheduler_defaults",
                                  heap[CFG]["scheduler"])>>

\* the applied layers, by position, whose preset holds the scalar key k (in
\* the option group g of the preset when g is not "")
Defining(g, k) ==
    {i \in 1..Len(applied) :
        LET t == entry[applied[i][2]]
        IN  IF g = "" THEN k \in DOMAIN t /\ ~IsDict(t[k])
            ELSE g \in DOMAIN t /\ IsDict(t[g]) /\ k \in DOMAIN entry[Obj(t[g])]}

\* the value layer number i gives to that key
LayerValue(i, g, k) ==
    LET t == entry[applied[i][2]]
    IN  IF g = "" THEN t[k] ELSE entry[Obj(t[g])][k]

Min(S) == CHOOSE i \in S : \A j \in S : i <= j

\* the caller's value of the key, None when the caller gave none
CallerValue(g, k) ==
    LET d == IF g = "" THEN entry[CFG] ELSE entry[Obj(entry[CFG][g])]
    IN  IF k \in DOMAIN d THEN d[k] ELSE None

FinalValue(g, k) ==
    LET d == IF g = "" THEN heap[CFG] ELSE heap[Obj(heap[CFG][g])]
    IN  IF k \in DOMAIN d THEN d[k] ELSE None

\* the option groups of the config, and "" for its top level
Groups == {""} \cup {g \in DOMAIN entry[CFG] : IsDict(entry[CFG][g])}

\* C4 as stated: every preset-defined field (scalar field or option-group
\* sub-key) ends with the caller's value if the caller gave a non-null one,
\* otherwise with the value of the first applied layer that defines it.
C4_FirstDefiningLayerWins ==
    (InPD /\ pc = "returned") =>
        \A g \in Groups : \A k \in {x \in Range(KeyOrder) : Defining(g, x) # {}} :
            FinalValue(g, k) =
                IF CallerValue(g, k) # None THEN CallerValue(g, k)
                ELSE LayerValue(Min(Defining(g, k)), g, k)

\* the first applied layer that gives the key a non-null value wins
FirstNonNull(g, k) ==
    LET S == {i \in Defining(g, k) : LayerValue(i, g, k) # None}
    IN  IF S = {} THEN None ELSE LayerValue(Min(S), g, k)

FirstWriterWins ==
    (InPD /\ pc = "returned") =>
        \A g \in Groups :
            \A k \in {x \in Range(KeyOrder) : Defining(g, x) # {}}
                        \ {"no_group_logging"} :
                FinalValue(g, k) =
                    IF CallerValue(g, k) # None THEN CallerValue(g, k)
                    ELSE IF g = "" /\ k \in GroupCounts /\ CallerFromSourceDomain
                    THEN PyInt(1)
                    ELSE FirstNonNull(g, k)

LayerSteps ==
    {"pd_dataset", "pd_split", "pd_algorithm", "pd_loader", "pd_model",
     "pd_scheduler"}

\* a preset layer changes no field that is non-null
LayerKeepsNonNull ==
    (InPD /\ pc \in LayerSteps) =>
        /\ NonNullKept(heap[CFG], heap'[CFG])
        /\ \A g \in DOMAIN heap[CFG] :
              IsDict(heap[CFG][g]) =>
                  NonNullKept(heap[Obj(heap[CFG][g])], heap'[Obj(heap[CFG][g])])

\* C4 amended: the layers are applied in the order dataset, split-scheme,
\* algorithm, loader, model, scheduler, the conditional ones selected by the
\* value their selector has after the earlier layers; every preset-defined
\* scalar field or option-group sub-key other than no_group_logging ends with the caller's value if it is
\* non-null, otherwise with 1 if it is a group count the from_source_domain
\* pre-check set, otherwise with the value of the first applied layer that
\* gives it a non-null value; and no layer changes a non-null field.
C4_LayerOrderFirstWriterWins ==
    /\ [](InPD => LayersInOrder)
    /\ []FirstWriterWins
    /\ [][LayerKeepsNonNull]_vars

\* C4 witness: a resolution in which the split, model and scheduler layers
\* were all applied, the model preset (fifth layer) gave the scheduler that
\* the dataset preset left None, and the dataset's n_epochs won over the
\* split preset's and the scheduler preset's.
C4_Witness ==
    /\ InPD /\ pc = "returned" /\ Len(applied) = 6
    /\ entry[CFG]["scheduler"] = None
    /\ heap[CFG]["scheduler"] = PyStr("linear_schedule_with_warmup")
    /\ heap[CFG]["n_epochs"] = PyInt(5)
    /\ heap[CFG]["optimizer"] = PyStr("SGD")
    /\ heap[Obj(heap[CFG]["model_kwargs"])]["pretrained"] = PyBool(FALSE)

(***************************************************************************)
(* C9 (checked under SpecCalls).                                           *)
(***************************************************************************)
\* C9: no call of populate_config, populate_defaults or
\* populate_defaults_for_swav, in any sequence, changes a preset table or
\* an option-group dict nested in one.
C9_PresetsNeverMutated ==
    \A o \in PresetObjects : heap[o] = entry[o] /\ heap[o] = RegistryBase[o]

\* C9 witness: after two calls the config's option groups hold the merged
\* sub-keys of several presets (pretrained from the dataset preset, dropout
\* from the SwAV preset or the model preset).
C9_Witness ==
    /\ calls = MaxCalls /\ pc = "returned"
    /\ IsDict(heap[CFG]["model_kwargs"])
    /\ DOMAIN heap[Obj(heap[CFG]["model_kwargs"])] = {"pretrained", "dropout"}
    /\ heap[CFG]["final_lr"] # None

(***************************************************************************)
(* C10 (checked under SpecCoral).                                          *)
(***************************************************************************)
\* the groups of the batch as given: the rows' features of each labeled
\* group id, then of each unlabeled group id
GroupsOf(rows) ==
    LET ids == Sorted({rows[i][1] : i \in 1..Len(rows)})
    IN  [k \in 1..Len(ids) |->
            LET at == SelectSeq([i \in 1..Len(rows) |-> i],
                                LAMBDA i : rows[i][1] = ids[k])
            IN  [j \in 1..Len(at) |-> Rat(rows[at[j]][2], 1)]]

AllGroups == GroupsOf(batch.given.lb) \o GroupsOf(batch.given.ub)

RECURSIVE SumOver(_, _)
SumOver(S, groups) ==
    IF S = {} THEN Rat(0, 1)
    ELSE LET p == CHOOSE q \in S : TRUE
             i == CHOOSE a \in p : \A b \in p : a <= b
             j == CHOOSE a \in p : \A b \in p : a >= b
         IN  RatAdd(coral_penalty(groups[i], groups[j]), SumOver(S \ {p}, groups))

\* the mean of coral_penalty over the unordered pairs of distinct groups
MeanPairwisePenalty ==
    LET N == Len(AllGroups)
        pairs == {p \in SUBSET (1..N) : Cardinality(p) = 2}
    IN  IF N < 2 THEN Rat(0, 1)
        ELSE RatDiv(SumOver(pairs, AllGroups), Rat(Cardinality(pairs), 1))

\* C10: objective returns base_loss + penalty_weight * P and stores P in
\* results['penalty'], P being in training mode the mean of coral_penalty
\* over the unordered pairs of distinct groups (labeled groups, then
\* unlabeled groups, each with the rows of its own feature tensor), 0 with
\* fewer than two groups, and 0 in evaluation mode.
C10_ObjectiveMeanPairwise ==
    (args.fn = "objective" /\ pc = "returned") =>
        LET P == IF batch.is_training THEN MeanPairwisePenalty ELSE Rat(0, 1)
        IN  /\ batch.results["penalty"] = P
            /\ batch.ret = RatAdd(batch.avg_loss, RatMul(batch.penalty_weight, P))

\* C10 witness: a training step with two labeled groups and one unlabeled
\* group, every group of two rows, whose mean penalty over the three pairs
\* is neither 0 nor nan, under a penalty weight of 2.
C10_Witness ==
    /\ args.fn = "objective" /\ pc = "returned" /\ batch.is_training
    /\ Len(AllGroups) = 3
    /\ \A k \in 1..3 : Len(AllGroups[k]) = 2
    /\ batch.results["penalty"] \notin {NaN, Rat(0, 1)}
    /\ batch.penalty_weight = Rat(2, 1)
    /\ "unlabeled_features" \notin DOMAIN batch.results

====
